---- MODULE Spec2Model ----
(***************************************************************************)
(* Model of plugins/modules/cloud/opennebula/one_template.py: one          *)
(* invocation of main() reconciles a single OpenNebula template against    *)
(* the remote pool through the pyone RPC client.  Every RPC round trip is  *)
(* one step; the code that runs locally between two round trips belongs to *)
(* the step of the round trip that precedes it.                            *)
(***************************************************************************)
EXTENDS Integers, Sequences, FiniteSets, TLC

\* ------------------------------------------------------------ bounds
\* Template ids the remote hands out are 0..MaxId.
MaxId == 1

\* ------------------------------------------------------------ values
\* Python's None and a present value, as a sequence of length 0 or 1.
None == <<>>
Some(v) == <<v>>
Val(o) == o[1]

\* Python truthiness of an optional int / an optional str.
TruthyInt(o) == o # None /\ Val(o) # 0
TruthyStr(o) == o # None /\ Val(o) # ""

Procs == {"p1", "p2"}
\* The invocations of the sequential specification all run in this process.
Main == "p1"

Ids == 0..MaxId
Names == {"a", "b"}
\* Template bodies a caller may submit; the remote stores "X" as "x".
Bodies == {"X", "y"}

\* What the remote stores for a submitted body (its parsed, re-rendered form).
Normalize(data) == IF data = "X" THEN "x" ELSE data
StoredBodies == {Normalize(d) : d \in Bodies}

\* A template of the pool (pool.VMTEMPLATE element).
Template(i, n, b) ==
  [ID |-> i, NAME |-> n, TEMPLATE |-> b,
   UNAME |-> "oneadmin", UID |-> 0, GNAME |-> "oneadmin", GID |-> 0]

IdsOf(pl) == {t.ID : t \in pl}
NamesOf(pl) == {t.NAME : t \in pl}

\* Pools the remote can hold: ids and names are unique.
Pools ==
  {pl \in SUBSET {Template(i, n, b) : i \in Ids, n \in Names, b \in StoredBodies} :
     /\ \A t, u \in pl : (t.ID = u.ID \/ t.NAME = u.NAME) => t = u}

\* ------------------------------------------------------------ state
VARIABLES
  pool,      \* the remote template pool
  nextId,    \* the id the remote assigns to the next allocated template
  inp,       \* per process: module.params and module.check_mode
  pc,        \* per process: position of main()
  template,  \* per process: main's `template`, the first lookup's result
  calls,     \* per process: RPC calls issued so far by this invocation
  outcome,   \* per process: how the invocation ended
  result,    \* per process: the dict handed to exit_json
  action,    \* per process: the branch of main() the invocation took
  pool0,     \* per process: the pool when the invocation started
  conn,      \* per process: what the connection set-up read and returned
  prev       \* summary of the invocation Main completed before this one

vars ==
  <<pool, nextId, inp, pc, template, calls, outcome, result, action, pool0,
    conn, prev>>

\* ------------------------------------------------------------ lookup
\* get_template with the predicate of get_template_by_id: first match of the
\* pool, which the remote lists in id order.
FirstOf(matches) ==
  IF matches = {} THEN None
  ELSE Some(CHOOSE t \in matches : \A u \in matches : t.ID <= u.ID)

get_template_by_id(pl, template_id) ==
  FirstOf({t \in pl : Some(t.ID) = template_id})

get_template_by_name(pl, template_name) ==
  FirstOf({t \in pl : Some(t.NAME) = template_name})

get_template_instance(pl, requested_id, requested_name) ==
  IF TruthyInt(requested_id)
    THEN get_template_by_id(pl, requested_id)
    ELSE get_template_by_name(pl, requested_name)

get_template_info(t) ==
  [id |-> t.ID, name |-> t.NAME, template |-> t.TEMPLATE,
   user_name |-> t.UNAME, user_id |-> t.UID,
   group_name |-> t.GNAME, group_id |-> t.GID]

\* ------------------------------------------------------------ inputs
\* module.params (id, name, state, template) and module.check_mode.
Inputs ==
  [id : {None} \cup {Some(i) : i \in Ids},
   name : {None} \cup {Some(n) : n \in Names},
   state : {"present", "absent"},
   template : {None, Some("")} \cup {Some(b) : b \in Bodies},
   check_mode : BOOLEAN]

NoInput ==
  [id |-> None, name |-> None, state |-> "present", template |-> None,
   check_mode |-> FALSE]

\* The api_* parameters and the ONE_* environment variables of one invocation.
ConnInputs ==
  [api_url : {Some("u")}, api_username : {None},
   api_password : {None, Some("")},
   ONE_URL : {None}, ONE_USERNAME : {Some("n")},
   ONE_PASSWORD : {None, Some("P")}]

\* Every combination of absent, empty and set, for each parameter and each
\* environment variable.
ConnInputsWide ==
  [api_url : {None, Some(""), Some("u")},
   api_username : {None, Some(""), Some("n")},
   api_password : {None, Some(""), Some("p")},
   ONE_URL : {None, Some(""), Some("U")},
   ONE_USERNAME : {None, Some(""), Some("N")},
   ONE_PASSWORD : {None, Some(""), Some("P")}]

\* Mutant: the constructor is called without mutually_exclusive.
MutuallyExclusive_Off(i) == FALSE

\* AnsibleModule(mutually_exclusive=[['id', 'name']]): both were supplied.
MutuallyExclusive(i) == i.id # None /\ i.name # None

\* Mutant: the password falls back to the environment only when the
\* parameter is absent, not when it is empty.
get_connection_info_NoneOnly(c) ==
  LET url == IF TruthyStr(c.api_url) THEN c.api_url ELSE c.ONE_URL
      username ==
        IF TruthyStr(c.api_username) THEN c.api_username ELSE c.ONE_USERNAME
      password ==
        IF c.api_password # None THEN c.api_password ELSE c.ONE_PASSWORD
  IN  IF ~(TruthyStr(url) /\ TruthyStr(username) /\ TruthyStr(password))
        THEN None
        ELSE Some([url |-> Val(url), username |-> Val(username),
                   password |-> Val(password)])

\* get_connection_info: the auth tuple, or None where it calls fail_json.
get_connection_info(c) ==
  LET url == IF TruthyStr(c.api_url) THEN c.api_url ELSE c.ONE_URL
      username ==
        IF TruthyStr(c.api_username) THEN c.api_username ELSE c.ONE_USERNAME
      password ==
        IF TruthyStr(c.api_password) THEN c.api_password ELSE c.ONE_PASSWORD
  IN  IF ~(TruthyStr(url) /\ TruthyStr(username) /\ TruthyStr(password))
        THEN None
        ELSE Some([url |-> Val(url), username |-> Val(username),
                   password |-> Val(password)])

\* ------------------------------------------------------------ RPC calls
InfoCall == [op |-> "templatepool.info", id |-> None, text |-> None, mode |-> None]

\* The text create_template submits: the NAME line, then the caller's body.
AllocateText(name, template_data) ==
  [first |-> <<"NAME", name>>, rest |-> template_data]

AllocateCall(name, template_data) ==
  [op |-> "template.allocate", id |-> None,
   text |-> Some(AllocateText(name, template_data)), mode |-> None]

\* update_template's call: the whole body, replace mode 0.
UpdateCall(t, template_data) ==
  [op |-> "template.update", id |-> Some(t.ID),
   text |-> Some(template_data), mode |-> Some(0)]

\* Mutant: delete_template passes another id than template.ID.
DeleteCall_OtherId(t) ==
  [op |-> "template.delete", id |-> Some(MaxId - t.ID), text |-> None,
   mode |-> None]

DeleteCall(t) ==
  [op |-> "template.delete", id |-> Some(t.ID), text |-> None, mode |-> None]

MutatingOps == {"template.allocate", "template.update", "template.delete"}

\* ------------------------------------------------------------ main's branches
\* Mutant: a found template is only ever reported, never updated.
Decide_NeverUpdate(i, t) ==
  IF t = None /\ i.state # "absent" /\ TruthyInt(i.id) THEN "fail_no_id"
  ELSE IF i.state = "absent"
    THEN (IF t = None THEN "noop_absent" ELSE "delete")
  ELSE IF t = None
    THEN (IF ~TruthyStr(i.template) THEN "fail_need_template" ELSE "create")
  ELSE "noop"

\* The branch main() takes once the first lookup has returned `t`.
Decide(i, t) ==
  IF t = None /\ i.state # "absent" /\ TruthyInt(i.id) THEN "fail_no_id"
  ELSE IF i.state = "absent"
    THEN (IF t = None THEN "noop_absent" ELSE "delete")
  ELSE IF t = None
    THEN (IF ~TruthyStr(i.template) THEN "fail_need_template" ELSE "create")
  ELSE IF TruthyStr(i.template) THEN "update"
  ELSE "noop"

\* `if not module.check_mode:` in create_template, update_template and
\* delete_template: whether the mutating call is issued.
IssuesCall(i) == ~i.check_mode

\* Mutant: main() returns from the create branch without calling
\* create_template.
AfterLookup_NoCreate(i, t) ==
  LET d == Decide(i, t)
  IN  CASE d = "update" -> IF IssuesCall(i) THEN "update" ELSE "refetch_id"
        [] d = "delete" -> IF IssuesCall(i) THEN "delete" ELSE "done"
        [] OTHER -> "done"

\* Where main() stands after the branch is taken and before its next RPC call.
AfterLookup(i, t) ==
  LET d == Decide(i, t)
  IN  CASE d = "create" ->
             IF IssuesCall(i)
               THEN (IF i.name = None THEN "done" ELSE "allocate")
               ELSE "refetch_name"
        [] d = "update" -> IF IssuesCall(i) THEN "update" ELSE "refetch_id"
        [] d = "delete" -> IF IssuesCall(i) THEN "delete" ELSE "done"
        [] OTHER -> "done"

AfterAllocate == "refetch_name"
AfterUpdate == "refetch_id"
\* Mutant: delete_template issues the call again instead of returning.
AfterDelete_Again == "delete"
AfterDelete == "done"

\* The fail_json messages.
MsgMutuallyExclusive == "parameters are mutually exclusive: id|name"
MsgNoPyone == "This module requires pyone to work!"
MsgConnection == "One or more connection parameters were not specified"
MsgNoId == "There is no template with id="
MsgNeedTemplate == "To create a new template, the template attribute needs to be set."

\* How an invocation ends: exit_json, fail_json, or an uncaught exception.
Running == [kind |-> "running", msg |-> ""]
Exit == [kind |-> "exit", msg |-> ""]
Fail(m) == [kind |-> "fail", msg |-> m]
Crash(m) == [kind |-> "crash", msg |-> m]

\* The dict handed to exit_json.
Result(changed, info) == [changed |-> changed, info |-> info]
NoResult == Result(FALSE, None)

\* The outcome and result of the branches that end without a further call.
LookupOutcome(i, t) ==
  LET d == Decide(i, t)
  IN  CASE d = "fail_no_id" -> Fail(MsgNoId)
        [] d = "fail_need_template" -> Fail(MsgNeedTemplate)
        [] d = "create" -> Crash("TypeError")
        [] OTHER -> Exit

LookupResult(i, t) ==
  LET d == Decide(i, t)
  IN  CASE d = "noop_absent" -> Result(FALSE, None)
        [] d = "delete" -> Result(TRUE, None)
        [] d = "noop" -> Result(FALSE, Some(get_template_info(Val(t))))
        [] OTHER -> NoResult

\* Mutant: create_template reports changed as False.
CreateResult_Unchanged(t) == Result(FALSE, Some(get_template_info(t)))

\* create_template's result from its re-fetch by name.
CreateResult(t) == Result(TRUE, Some(get_template_info(t)))

\* Mutant: update_template reports every update as a change.
UpdateResult_AlwaysChanged(old, t) == Result(TRUE, Some(get_template_info(t)))

\* update_template's result from its re-fetch by id; `old` is main's template.
UpdateResult(old, t) ==
  Result(old.TEMPLATE # get_template_info(t).template, Some(get_template_info(t)))

\* ------------------------------------------------------------ the remote
\* client.template.allocate: the remote takes NAME from the first line, stores
\* the rest in its own form and assigns the next id.
RemoteAllocate(pl, nid, text) ==
  pl \cup {Template(nid, text.first[2], Normalize(text.rest))}

\* client.template.update(id, data, 0): the whole body is replaced.
RemoteUpdate(pl, id, data) ==
  {IF t.ID = id THEN [t EXCEPT !.TEMPLATE = Normalize(data)] ELSE t : t \in pl}

\* client.template.delete(id).
RemoteDelete(pl, id) == {t \in pl : t.ID # id}

\* ------------------------------------------------------------ history
\* Whether the selector of request i names a template of pool pl.
SelExists(pl, i) ==
  \E t \in pl :
    \/ i.id # None /\ t.ID = Val(i.id)
    \/ i.id = None /\ i.name # None /\ t.NAME = Val(i.name)

\* What is kept of a completed invocation: its request (of the body, only
\* whether one was given), how it ended, whether it got as far as the remote,
\* and whether its selector named a template when it started.
Summary(p) ==
  [id |-> inp[p].id, name |-> inp[p].name, state |-> inp[p].state,
   body |-> TruthyStr(inp[p].template), check_mode |-> inp[p].check_mode,
   kind |-> outcome[p].kind, changed |-> result[p].changed,
   reached |-> calls[p] # <<>>,
   existed |-> SelExists(pool0[p], inp[p])]

\* ------------------------------------------------------------ actions
Init ==
  /\ pool \in Pools
  /\ nextId \in 0..(MaxId + 1)
  /\ \A t \in pool : t.ID < nextId
  /\ inp = [p \in Procs |-> NoInput]
  /\ pc = [p \in Procs |-> "idle"]
  /\ template = [p \in Procs |-> None]
  /\ calls = [p \in Procs |-> <<>>]
  /\ outcome = [p \in Procs |-> Running]
  /\ result = [p \in Procs |-> NoResult]
  /\ action = [p \in Procs |-> "none"]
  /\ pool0 = [p \in Procs |-> {}]
  /\ conn = [p \in Procs |-> None]
  /\ prev = None

\* main() up to the AnsibleModule constructor, which validates the arguments;
\* the request is one of `requests`.
Begin(p, requests) ==
  /\ \E i \in requests :
       /\ inp' = [inp EXCEPT ![p] = i]
       /\ IF MutuallyExclusive(i)
            THEN /\ pc' = [pc EXCEPT ![p] = "done"]
                 /\ outcome' = [outcome EXCEPT ![p] = Fail(MsgMutuallyExclusive)]
            ELSE /\ pc' = [pc EXCEPT ![p] = "connect"]
                 /\ outcome' = [outcome EXCEPT ![p] = Running]
  /\ template' = [template EXCEPT ![p] = None]
  /\ calls' = [calls EXCEPT ![p] = <<>>]
  /\ result' = [result EXCEPT ![p] = NoResult]
  /\ action' = [action EXCEPT ![p] = "none"]
  /\ pool0' = [pool0 EXCEPT ![p] = pool]
  /\ conn' = [conn EXCEPT ![p] = None]
  /\ UNCHANGED <<pool, nextId>>

\* A new invocation, with any request, once the previous one has ended.
Start(p) ==
  /\ pc[p] \in {"idle", "done"}
  /\ Begin(p, Inputs)
  /\ UNCHANGED prev

\* The first invocation of a behaviour.
First(p) ==
  /\ pc[p] = "idle"
  /\ Begin(p, Inputs)
  /\ UNCHANGED prev

\* The task run once more: a second invocation with the selector of the
\* first; target state, body and check mode are free.
Again(p) ==
  /\ pc[p] = "done"
  /\ prev = None
  /\ Begin(p, {i \in Inputs : i.id = inp[p].id /\ i.name = inp[p].name})
  /\ prev' = Some(Summary(p))

\* The HAS_PYONE test, get_connection_info and the creation of the client;
\* HAS_PYONE is one of `pyones`, the parameters and environment one of
\* `choices`.
ConnectFrom(p, pyones, choices) ==
  /\ pc[p] = "connect"
  /\ \E has_pyone \in pyones, c \in choices :
       IF ~has_pyone
         THEN /\ pc' = [pc EXCEPT ![p] = "done"]
              /\ outcome' = [outcome EXCEPT ![p] = Fail(MsgNoPyone)]
              /\ conn' = [conn EXCEPT
                            ![p] = Some([has_pyone |-> FALSE, params |-> c,
                                         auth |-> None])]
         ELSE /\ conn' = [conn EXCEPT
                            ![p] = Some([has_pyone |-> TRUE, params |-> c,
                                         auth |-> get_connection_info(c)])]
              /\ IF get_connection_info(c) = None
                   THEN /\ pc' = [pc EXCEPT ![p] = "done"]
                        /\ outcome' = [outcome EXCEPT ![p] = Fail(MsgConnection)]
                   ELSE /\ pc' = [pc EXCEPT ![p] = "lookup"]
                        /\ UNCHANGED outcome
  /\ UNCHANGED <<pool, nextId, inp, template, calls, result, action, pool0, prev>>

Connect(p) == ConnectFrom(p, BOOLEAN, ConnInputs)

\* The same with every combination of connection parameters.
ConnectWide(p) == ConnectFrom(p, BOOLEAN, ConnInputsWide)

\* get_template_instance, then main()'s branch up to its next RPC call.
Lookup(p) ==
  /\ pc[p] = "lookup"
  /\ LET i == inp[p]
         t == get_template_instance(pool, i.id, i.name)
         next == AfterLookup(i, t)
     IN  /\ calls' = [calls EXCEPT ![p] = Append(@, InfoCall)]
         /\ template' = [template EXCEPT ![p] = t]
         /\ action' = [action EXCEPT ![p] = Decide(i, t)]
         /\ pc' = [pc EXCEPT ![p] = next]
         /\ IF next = "done"
              THEN /\ outcome' = [outcome EXCEPT ![p] = LookupOutcome(i, t)]
                   /\ result' = [result EXCEPT ![p] = LookupResult(i, t)]
              ELSE UNCHANGED <<outcome, result>>
  \* the auth tuple is not read again once the client exists
  /\ conn' = [conn EXCEPT ![p] = None]
  /\ UNCHANGED <<pool, nextId, inp, pool0, prev>>

\* create_template: client.template.allocate.
Allocate(p) ==
  /\ pc[p] = "allocate"
  /\ nextId <= MaxId
  /\ LET i == inp[p]
         text == AllocateText(Val(i.name), Val(i.template))
     IN  /\ calls' = [calls EXCEPT
                        ![p] = Append(@, AllocateCall(Val(i.name), Val(i.template)))]
         /\ IF Val(i.name) \in NamesOf(pool)
              THEN /\ pc' = [pc EXCEPT ![p] = "done"]
                   /\ outcome' = [outcome EXCEPT ![p] = Crash("OneException")]
                   /\ UNCHANGED <<pool, nextId>>
              ELSE /\ pc' = [pc EXCEPT ![p] = AfterAllocate]
                   /\ pool' = RemoteAllocate(pool, nextId, text)
                   /\ nextId' = nextId + 1
                   /\ UNCHANGED outcome
  /\ UNCHANGED <<inp, template, result, action, pool0, conn, prev>>

\* update_template: client.template.update.
Update(p) ==
  /\ pc[p] = "update"
  /\ LET i == inp[p]
         t == Val(template[p])
     IN  /\ calls' = [calls EXCEPT ![p] = Append(@, UpdateCall(t, Val(i.template)))]
         /\ IF t.ID \notin IdsOf(pool)
              THEN /\ pc' = [pc EXCEPT ![p] = "done"]
                   /\ outcome' = [outcome EXCEPT ![p] = Crash("OneException")]
                   /\ UNCHANGED pool
              ELSE /\ pc' = [pc EXCEPT ![p] = AfterUpdate]
                   /\ pool' = RemoteUpdate(pool, t.ID, Val(i.template))
                   /\ UNCHANGED outcome
  /\ UNCHANGED <<nextId, inp, template, result, action, pool0, conn, prev>>

\* delete_template: client.template.delete, then exit_json.
Delete(p) ==
  /\ pc[p] = "delete"
  /\ LET t == Val(template[p])
     IN  /\ calls' = [calls EXCEPT ![p] = Append(@, DeleteCall(t))]
         /\ IF t.ID \notin IdsOf(pool)
              THEN /\ pc' = [pc EXCEPT ![p] = "done"]
                   /\ outcome' = [outcome EXCEPT ![p] = Crash("OneException")]
                   /\ UNCHANGED <<pool, result>>
              ELSE /\ pc' = [pc EXCEPT ![p] = AfterDelete]
                   /\ pool' = RemoteDelete(pool, t.ID)
                   /\ outcome' = [outcome EXCEPT ![p] = Exit]
                   /\ result' = [result EXCEPT ![p] = Result(TRUE, None)]
  /\ UNCHANGED <<nextId, inp, template, action, pool0, conn, prev>>

\* create_template: the re-fetch by name, then exit_json.
RefetchByName(p) ==
  /\ pc[p] = "refetch_name"
  /\ LET t == get_template_by_name(pool, inp[p].name)
     IN  /\ calls' = [calls EXCEPT ![p] = Append(@, InfoCall)]
         /\ pc' = [pc EXCEPT ![p] = "done"]
         /\ IF t = None
              THEN /\ outcome' = [outcome EXCEPT ![p] = Crash("AttributeError")]
                   /\ UNCHANGED result
              ELSE /\ outcome' = [outcome EXCEPT ![p] = Exit]
                   /\ result' = [result EXCEPT ![p] = CreateResult(Val(t))]
  /\ UNCHANGED <<pool, nextId, inp, template, action, pool0, conn, prev>>

\* update_template: the re-fetch by id, then exit_json.
RefetchById(p) ==
  /\ pc[p] = "refetch_id"
  /\ LET old == Val(template[p])
         t == get_template_by_id(pool, Some(old.ID))
     IN  /\ calls' = [calls EXCEPT ![p] = Append(@, InfoCall)]
         /\ pc' = [pc EXCEPT ![p] = "done"]
         /\ IF t = None
              THEN /\ outcome' = [outcome EXCEPT ![p] = Crash("AttributeError")]
                   /\ UNCHANGED result
              ELSE /\ outcome' = [outcome EXCEPT ![p] = Exit]
                   /\ result' = [result EXCEPT ![p] = UpdateResult(old, Val(t))]
  /\ UNCHANGED <<pool, nextId, inp, template, action, pool0, conn, prev>>

\* One invocation after another, all in process Main.
Next ==
  \/ Start(Main)
  \/ Connect(Main)
  \/ Lookup(Main)
  \/ Allocate(Main)
  \/ Update(Main)
  \/ Delete(Main)
  \/ RefetchByName(Main)
  \/ RefetchById(Main)

Spec == Init /\ [][Next]_vars

\* Two invocations with one selector, the second after the first has ended.
NextTwice ==
  \/ First(Main)
  \/ Again(Main)
  \/ Connect(Main)
  \/ Lookup(Main)
  \/ Allocate(Main)
  \/ Update(Main)
  \/ Delete(Main)
  \/ RefetchByName(Main)
  \/ RefetchById(Main)

SpecTwice == Init /\ [][NextTwice]_vars

\* Requests by name, without check mode, for the connection set-up.
ConnRequests ==
  {i \in Inputs :
     /\ i.id = None /\ i.name = Some("a") /\ ~i.check_mode
     /\ i.template \in {None, Some("y")}}

StartConn(p) ==
  /\ pc[p] \in {"idle", "done"}
  /\ Begin(p, ConnRequests)
  /\ UNCHANGED prev

\* Invocations whose connection parameters and environment take every
\* combination.
NextConn ==
  \/ StartConn(Main)
  \/ ConnectWide(Main)
  \/ Lookup(Main)
  \/ Allocate(Main)
  \/ Update(Main)
  \/ Delete(Main)
  \/ RefetchByName(Main)
  \/ RefetchById(Main)

SpecConn == Init /\ [][NextConn]_vars

\* Requests of concurrent invocations: one name, a body, no check mode.
RaceRequests ==
  {i \in Inputs :
     /\ i.id = None /\ i.name = Some("a") /\ ~i.check_mode
     /\ i.template = Some("y")}

\* Parameters and environment with which the connection set-up succeeds.
RaceConnInputs == {c \in ConnInputs : get_connection_info(c) # None}

StartRace(p) ==
  /\ pc[p] \in {"idle", "done"}
  /\ Begin(p, RaceRequests)
  /\ UNCHANGED prev

ConnectRace(p) == ConnectFrom(p, {TRUE}, RaceConnInputs)

\* Two processes, each running invocations against the one remote; their
\* steps, one RPC round trip each, interleave freely.
NextRace ==
  \E p \in Procs :
    \/ StartRace(p)
    \/ ConnectRace(p)
    \/ Lookup(p)
    \/ Allocate(p)
    \/ Update(p)
    \/ Delete(p)
    \/ RefetchByName(p)
    \/ RefetchById(p)

SpecRace == Init /\ [][NextRace]_vars

\* ------------------------------------------------------------ claims
\* The invocation under observation, and what it has done so far.
Cur == inp[Main]
Done == pc[Main] = "done"
Reached == calls[Main] # <<>>
IsMutating(c) == c.op \in MutatingOps
MutCalls == SelectSeq(calls[Main], IsMutating)
IdGiven == Cur.id # None
NameGiven == Cur.name # None
BodyGiven == TruthyStr(Cur.template)
Found == template[Main] # None

\* The action column of the decision table.
TableAction(state, found, idGiven, bodyGiven) ==
  IF state = "absent" THEN (IF found THEN "delete" ELSE "noop_absent")
  ELSE IF ~found
    THEN (IF idGiven THEN "fail_no_id"
          ELSE IF bodyGiven THEN "create" ELSE "fail_need_template")
  ELSE IF bodyGiven THEN "update" ELSE "noop"

\* C1: once the lookup has returned, an invocation given an id or a name has
\* taken the branch the decision table gives for (target state, found, id
\* given, body given); the two failures end with their messages, the two
\* no-ops exit with changed=false and no mutating call, delete reports
\* changed=true.
C1_DecisionTable ==
  (Done /\ Reached /\ (IdGiven \/ NameGiven)) =>
    LET a == TableAction(Cur.state, Found, IdGiven, BodyGiven)
    IN  /\ action[Main] = a
        /\ a = "fail_no_id" => outcome[Main] = Fail(MsgNoId)
        /\ a = "fail_need_template" => outcome[Main] = Fail(MsgNeedTemplate)
        /\ a \in {"noop", "noop_absent"} =>
             /\ outcome[Main] = Exit
             /\ result[Main].changed = FALSE
             /\ MutCalls = <<>>
        /\ a = "noop" =>
             result[Main].info = Some(get_template_info(Val(template[Main])))
        /\ a = "delete" => outcome[Main] = Exit /\ result[Main].changed = TRUE

\* What main() ends with when run without check mode from pool pl and
\* request i: the branch it takes, the kind of its outcome and its changed
\* value.
NormalRun(pl, nid, i) ==
  LET t == get_template_instance(pl, i.id, i.name)
      d == Decide(i, t)
  IN  CASE d = "create" /\ i.name # None ->
             LET pl2 == RemoteAllocate(pl, nid,
                                       AllocateText(Val(i.name), Val(i.template)))
             IN  [action |-> d, kind |-> "exit",
                  changed |-> CreateResult(Val(get_template_by_name(pl2, i.name))).changed]
        [] d = "update" ->
             LET pl2 == RemoteUpdate(pl, Val(t).ID, Val(i.template))
             IN  [action |-> d, kind |-> "exit",
                  changed |-> UpdateResult(Val(t),
                                Val(get_template_by_id(pl2, Some(Val(t).ID)))).changed]
        [] d = "delete" -> [action |-> d, kind |-> "exit", changed |-> TRUE]
        [] OTHER -> [action |-> d, kind |-> LookupOutcome(i, t).kind,
                     changed |-> LookupResult(i, t).changed]

\* C2: a check-mode invocation issues no mutating call and ends as the run
\* without check mode would from the same pool and request: the same
\* branch, the same kind of outcome and the same changed value.
C2_CheckModeSame ==
  (Done /\ Reached /\ Cur.check_mode) =>
    /\ MutCalls = <<>>
    /\ action[Main] = NormalRun(pool0[Main], nextId, Cur).action
    /\ outcome[Main].kind = NormalRun(pool0[Main], nextId, Cur).kind
    /\ result[Main].changed = NormalRun(pool0[Main], nextId, Cur).changed

\* The case of C3: state=present, a name, a body, and a template of that
\* name in the pool when the invocation started.
C3_Case ==
  /\ Done /\ Reached
  /\ Cur.state = "present" /\ Cur.id = None /\ NameGiven /\ BodyGiven
  /\ Val(Cur.name) \in NamesOf(pool0[Main])

C3_Existing == CHOOSE t \in pool0[Main] : t.NAME = Val(Cur.name)

\* C3 as stated: such an invocation fails, issues no mutating call and
\* leaves the pool as it was.
C3_FailsOnExistingName ==
  C3_Case => outcome[Main].kind = "fail" /\ MutCalls = <<>> /\ pool = pool0[Main]

\* C3 as amended: such an invocation does not fail; it takes the update
\* branch for the existing template, exits reporting that template, issues
\* no allocate and no delete call, and issues exactly one update call, with
\* the existing template's id and the supplied body (none in check mode).
C3_UpdatesExistingName ==
  C3_Case =>
    /\ outcome[Main] = Exit
    /\ action[Main] = "update"
    /\ result[Main].info # None /\ Val(result[Main].info).id = C3_Existing.ID
    /\ IF Cur.check_mode
         THEN MutCalls = <<>> /\ pool = pool0[Main]
         ELSE /\ MutCalls = <<UpdateCall(C3_Existing, Val(Cur.template))>>
              /\ pool = RemoteUpdate(pool0[Main], C3_Existing.ID, Val(Cur.template))

C3_Witness == C3_Case /\ ~Cur.check_mode /\ pool # pool0[Main]

\* C4: an invocation with state=present and an id no template of the pool
\* has ends in the failure "There is no template with id=" and issues no
\* mutating call.
C4_UnknownIdFails ==
  (Done /\ Reached /\ Cur.state = "present" /\ IdGiven
     /\ Val(Cur.id) \notin IdsOf(pool0[Main])) =>
    outcome[Main] = Fail(MsgNoId) /\ MutCalls = <<>> /\ pool = pool0[Main]

\* The previous invocation, when there was one.
Prev == Val(prev)
SameRequestAgain ==
  /\ prev # None
  /\ Cur.state = Prev.state /\ Cur.check_mode = Prev.check_mode
  /\ Prev.reached /\ Reached /\ Done

\* C5: of two successive state=absent invocations without check mode whose
\* selector named a template before the first, the first reports
\* changed=true and the second changed=false; and a state=absent invocation
\* whose selector names no template exits with changed=false and no delete
\* call.
C5_DeleteTwice ==
  /\ (SameRequestAgain /\ Cur.state = "absent" /\ ~Cur.check_mode /\ Prev.existed) =>
       /\ Prev.kind = "exit" /\ Prev.changed = TRUE
       /\ outcome[Main] = Exit /\ result[Main].changed = FALSE
  /\ (Done /\ Reached /\ Cur.state = "absent" /\ (IdGiven \/ NameGiven)
        /\ ~SelExists(pool0[Main], Cur)) =>
       outcome[Main] = Exit /\ result[Main].changed = FALSE /\ MutCalls = <<>>

\* The case of C6: the first invocation was state=present with a name and a
\* body, without check mode, when no template had that name; this one is
\* state=present with the same name and no body.
C6_Case ==
  /\ prev # None /\ Prev.reached /\ Reached /\ Done
  /\ Prev.state = "present" /\ Prev.id = None /\ Prev.name # None
  /\ Prev.body /\ ~Prev.check_mode /\ ~Prev.existed
  /\ Cur.state = "present" /\ Cur.id = None /\ Cur.name = Prev.name
  /\ ~BodyGiven

\* C6: in that case the first invocation exited with changed=true and left a
\* template of that name; the second exits with changed=false, issues no
\* mutating call, leaves the pool alone and reports the id, name and body
\* the remote held when it started.
C6_PresentTwice ==
  C6_Case =>
    /\ Prev.kind = "exit" /\ Prev.changed = TRUE
    /\ Val(Cur.name) \in NamesOf(pool0[Main])
    /\ outcome[Main] = Exit /\ result[Main].changed = FALSE
    /\ MutCalls = <<>> /\ pool = pool0[Main]
    /\ \E t \in pool0[Main] :
         /\ t.NAME = Val(Cur.name)
         /\ result[Main].info # None
         /\ Val(result[Main].info).id = t.ID
         /\ Val(result[Main].info).name = t.NAME
         /\ Val(result[Main].info).template = t.TEMPLATE

C6_Witness == C6_Case /\ result[Main].info # None

\* C7: an invocation issues at most one mutating call.
C7_AtMostOneMutation == Len(MutCalls) <= 1

C7_Witness == Done /\ Len(MutCalls) = 1

\* C8: an invocation given both an id and a name ends in a failure without
\* having issued any call, templatepool.info included.
C8_BothFailsEarly ==
  (pc[Main] # "idle" /\ IdGiven /\ NameGiven) =>
    Done /\ outcome[Main].kind = "fail" /\ calls[Main] = <<>>

C8_Witness == Done /\ IdGiven /\ NameGiven /\ outcome[Main].kind = "fail"

\* C9: an invocation given neither an id nor a name ends in a reported
\* failure, for both target states, and issues no mutating call.
C9_NeitherFails ==
  (Done /\ ~IdGiven /\ ~NameGiven) =>
    outcome[Main].kind = "fail" /\ MutCalls = <<>>

\* C10: whenever an id is given, 0 included, the invocation works on the
\* pool entry with that id, and with state=present and no such entry it
\* fails instead of creating; the create branch is never taken when an id
\* was given.
C10_IdSelects ==
  /\ (Reached /\ IdGiven) =>
       /\ template[Main] = FirstOf({t \in pool0[Main] : t.ID = Val(Cur.id)})
       /\ (Done /\ template[Main] = None /\ Cur.state = "present") =>
            outcome[Main] = Fail(MsgNoId)
  /\ IdGiven => action[Main] \notin {"create", "fail_need_template"}

\* The case of C11: an invocation that took the update branch without check
\* mode and has ended.
C11_Case == Done /\ action[Main] = "update" /\ ~Cur.check_mode

\* C11: such an invocation has issued, as its only mutating call,
\* template.update(id of the template the first lookup returned, the supplied
\* body, 0); it exits reporting the pool's entry of that id as it is after
\* the call, whose body is the stored form of the supplied one; and changed
\* is true exactly when that body differs from the body the first lookup
\* returned, so false when the supplied body is stored as the previous one.
C11_UpdateReplaces ==
  C11_Case =>
    LET old == Val(template[Main])
    IN  /\ MutCalls = <<[op |-> "template.update", id |-> Some(old.ID),
                         text |-> Cur.template, mode |-> Some(0)]>>
        /\ outcome[Main] = Exit
        /\ result[Main].info # None
        /\ \E t \in pool :
             /\ t.ID = old.ID
             /\ t.TEMPLATE = Normalize(Val(Cur.template))
             /\ Val(result[Main].info).id = t.ID
             /\ Val(result[Main].info).name = t.NAME
             /\ Val(result[Main].info).template = t.TEMPLATE
             /\ result[Main].changed = (old.TEMPLATE # t.TEMPLATE)
        /\ Normalize(Val(Cur.template)) = old.TEMPLATE =>
             result[Main].changed = FALSE

C11_Witness ==
  /\ C11_Case /\ result[Main].changed = FALSE
  /\ Normalize(Val(Cur.template)) = Val(template[Main]).TEMPLATE
  /\ Val(Cur.template) # Val(template[Main]).TEMPLATE

\* The value get_connection_info is to use: the parameter when it is set and
\* not empty, otherwise the environment variable.
C12_Resolved(param, env) == IF param # None /\ Val(param) # "" THEN param ELSE env
C12_Set(o) == o # None /\ Val(o) # ""

\* C12: without pyone the invocation fails with the pyone message; otherwise
\* url, username and password are each the parameter when it is non-empty
\* and else ONE_URL, ONE_USERNAME, ONE_PASSWORD, and when one of them is
\* still unset the invocation fails with the connection-parameters message;
\* both failures come before any call.
C12_ConnectionInfo ==
  /\ pc[Main] = "connect" => calls[Main] = <<>>
  /\ conn[Main] # None =>
       LET k == Val(conn[Main])
           url == C12_Resolved(k.params.api_url, k.params.ONE_URL)
           username == C12_Resolved(k.params.api_username, k.params.ONE_USERNAME)
           password == C12_Resolved(k.params.api_password, k.params.ONE_PASSWORD)
       IN  IF ~k.has_pyone
             THEN Done /\ outcome[Main] = Fail(MsgNoPyone) /\ calls[Main] = <<>>
           ELSE IF C12_Set(url) /\ C12_Set(username) /\ C12_Set(password)
             THEN /\ pc[Main] = "lookup" /\ outcome[Main] = Running
                  /\ k.auth = Some([url |-> Val(url), username |-> Val(username),
                                    password |-> Val(password)])
           ELSE /\ Done /\ outcome[Main] = Fail(MsgConnection)
                /\ calls[Main] = <<>> /\ k.auth = None

C12_Witness ==
  /\ conn[Main] # None /\ pc[Main] = "lookup"
  /\ Val(conn[Main]).params.api_password = Some("")
  /\ Val(conn[Main]).params.api_url = Some("u")
  /\ Val(conn[Main]).auth = Some([url |-> "u", username |-> "N", password |-> "P"])

\* The calls an invocation has issued after its first.
C13_Later == SubSeq(calls[Main], 2, Len(calls[Main]))

\* How many mutating calls a create, update or delete issues: none in check
\* mode.
C13_Mutations == IF Cur.check_mode THEN 0 ELSE 1

\* C13: the first call of an invocation is a templatepool.info lookup and no
\* branch is taken before it; a create or update ends with exactly one more
\* templatepool.info, after its mutating call, and reports the template that
\* lookup returned; a delete and a no-op issue no further lookup; the failures
\* 'id not found' and 'body missing on create' come after exactly one lookup
\* and no mutating call.
C13_CallOrdering ==
  /\ calls[Main] # <<>> => calls[Main][1] = InfoCall
  /\ action[Main] # "none" => calls[Main] # <<>>
  /\ (Done /\ action[Main] \in {"create", "update"}) =>
       /\ Len(MutCalls) = C13_Mutations
       /\ C13_Later = MutCalls \o <<InfoCall>>
       /\ outcome[Main] = Exit
       /\ \E t \in pool :
            /\ result[Main].info = Some(get_template_info(t))
            /\ IF action[Main] = "create"
                 THEN Some(t.NAME) = Cur.name
                 ELSE t.ID = Val(template[Main]).ID
  /\ (Done /\ action[Main] = "delete") =>
       /\ Len(MutCalls) = C13_Mutations
       /\ C13_Later = MutCalls
  /\ (Done /\ action[Main] \in {"noop", "noop_absent"}) => C13_Later = <<>>
  /\ (Done /\ action[Main] \in {"fail_no_id", "fail_need_template"}) =>
       /\ calls[Main] = <<InfoCall>>
       /\ outcome[Main].kind = "fail"

\* Whether process p has issued template.allocate for the name and body of its
\* request.
C14_Allocated(p) ==
  \E k \in 1..Len(calls[p]) :
    calls[p][k] = AllocateCall(Val(inp[p].name), Val(inp[p].template))

\* C14: with invocations running concurrently, an invocation whose lookup
\* returned 'not found' and that took the create branch either stands before
\* its template.allocate, having issued no mutating call, or has issued it:
\* whatever the other invocation did in between, nothing takes it off that
\* path.
C14_NothingPreventsAllocate ==
  \A p \in Procs :
    action[p] = "create" =>
      /\ template[p] = None
      /\ \/ pc[p] = "allocate" /\ calls[p] = <<InfoCall>>
         \/ pc[p] # "allocate" /\ C14_Allocated(p)

\* Both invocations asked state=present with the same name and a body, both
\* lookups returned 'not found', and both have issued template.allocate.
C14_Witness ==
  /\ \A p \in Procs :
       /\ inp[p].state = "present" /\ inp[p].name = Some("a")
       /\ TruthyStr(inp[p].template)
       /\ action[p] = "create" /\ template[p] = None
       /\ C14_Allocated(p)
  /\ \E p \in Procs : outcome[p] = Crash("OneException")

\* C15: an invocation that has ended has ended in exit_json or fail_json,
\* never in an uncaught exception.
C15_ExitOrFail == Done => outcome[Main].kind \in {"exit", "fail"}

\* The templates of the pool the invocation started with, other than the one
\* its first lookup returned.
C16_Others ==
  {t \in pool0[Main] : template[Main] = None \/ t.ID # Val(template[Main]).ID}

\* C16: every update or delete call carries the ID of the template the first
\* lookup returned; every other template of the pool keeps its id, name and
\* body; only a create adds a template, one, with the requested name; and an
\* invocation that ends in a no-op or a reported failure leaves the pool as it
\* found it.
C16_Frame ==
  /\ \A k \in 1..Len(calls[Main]) :
       calls[Main][k].op \in {"template.update", "template.delete"} =>
         /\ template[Main] # None
         /\ calls[Main][k].id = Some(Val(template[Main]).ID)
  /\ pc[Main] # "idle" =>
       /\ C16_Others \subseteq pool
       /\ \A t \in pool :
            t.ID \notin IdsOf(pool0[Main]) =>
              /\ action[Main] = "create"
              /\ Some(t.NAME) = Cur.name
              /\ Cardinality(pool) = Cardinality(pool0[Main]) + 1
  /\ (Done /\ (outcome[Main].kind = "fail"
               \/ action[Main] \in {"noop", "noop_absent"})) =>
       pool = pool0[Main]

\* An update or a delete that changed the pool where it held another template.
C16_Witness ==
  /\ Done /\ action[Main] \in {"update", "delete"} /\ MutCalls # <<>>
  /\ C16_Others # {}
  /\ pool # pool0[Main]

====
